---------------------------- MODULE Spec2Model ----------------------------
(***************************************************************************)
(* State-machine model of the walk-in queue of server.js: the TokenCounter *)
(* and Appointment collections, the POST /api/join-queue handler with its  *)
(* three suspension points (findOne, counter.save, appt.save), the cancel  *)
(* and admin status routes, and GET /api/queue/:doctorId.                  *)
(*                                                                         *)
(* A collection is a sequence in insertion (natural) order; a document's   *)
(* _id is its position.  Each action is one database operation together    *)
(* with the synchronous code that runs when its await resumes.             *)
(***************************************************************************)
EXTENDS Integers, Sequences, FiniteSets

\* ------------------------------------------------------------- bounds
NumProcs == 2      \* request handlers that may be in flight at once
MaxJoins == 3      \* join-queue requests in one run of Spec
MaxDeepJoins == 5  \* join-queue requests in one run of SpecDeep
MaxQueueJoins == 2 \* join-queue requests in one run of SpecQueue
MaxClock == 1      \* last value of the millisecond clock

Procs == 1..NumProcs
Doctors == {"D1", "D2"}
Users == {"U1"}
Statuses == {"waiting", "completed", "cancelled"}

VARIABLES
    counters,      \* TokenCounter collection: <<[doctorId, count], ...>>
    appointments,  \* Appointment collection
    pc,            \* pc[p]: where handler p of join-queue is suspended
    req,           \* req[p]: the request body of handler p
    sentBefore,    \* sentBefore[p]: responses already sent when p began
    found,         \* found[p]: what findOne returned (0: null)
    counter,       \* counter[p]: the handler's TokenCounter document
    appt,          \* appt[p]: the handler's Appointment document
    responses,     \* the join-queue responses sent so far, in order
    joinsLeft,     \* join-queue requests still to arrive in this run
    now,           \* the clock read by new Date()
    queueResp      \* the response GET /api/queue/:doctorId sends in this
                   \* step; NoQueue in a step of any other route

vars == <<counters, appointments, pc, req, sentBefore, found, counter, appt,
          responses, joinsLeft, now, queueResp>>

joinVars == <<pc, req, sentBefore, found, counter, appt, responses,
              joinsLeft>>

NoReq == [doctorId |-> "", userId |-> ""]
NoCounter == [id |-> 0, doctorId |-> "", count |-> 0]
NoAppt == [id |-> 0, userId |-> "", doctorId |-> "", status |-> "",
           token |-> 0, createdAt |-> 0]
NoQueue == [doctorId |-> "", list |-> <<>>]

InitWith(n) ==
    /\ counters = <<>>
    /\ appointments = <<>>
    /\ pc = [p \in Procs |-> "idle"]
    /\ req = [p \in Procs |-> NoReq]
    /\ sentBefore = [p \in Procs |-> 0]
    /\ found = [p \in Procs |-> 0]
    /\ counter = [p \in Procs |-> NoCounter]
    /\ appt = [p \in Procs |-> NoAppt]
    /\ responses = <<>>
    /\ joinsLeft = n
    /\ now = 0
    /\ queueResp = NoQueue

Init == InitWith(MaxJoins)

\* ------------------------------------------------------------ helpers

Min(S) == CHOOSE x \in S : \A y \in S : x <= y

\* A findOne with no filter: any doctor's counter matches.
CounterMatchesAny(doc, d) == TRUE

\* The filter { doctorId } of TokenCounter.findOne.
CounterMatches(doc, d) == doc.doctorId = d

\* TokenCounter.findOne({ doctorId }): the first matching document in
\* natural order, 0 for null.
FindOneCounter(d) ==
    LET hits == {i \in DOMAIN counters : CounterMatches(counters[i], d)}
    IN  IF hits = {} THEN 0 ELSE Min(hits)

\* The count persisted for doctor d, as the next join would read it.
DoctorCount(d) ==
    IF FindOneCounter(d) = 0 THEN 0 ELSE counters[FindOneCounter(d)].count

CounterDocs(d) == {i \in DOMAIN counters : counters[i].doctorId = d}

EntriesOf(d) == {i \in DOMAIN appointments : appointments[i].doctorId = d}

\* ------------------------------------------------- POST /api/join-queue

\* The request arrives; the handler issues findOne and suspends.  Handlers
\* are anonymous: a new request takes the lowest free slot.
JoinStart(p, d, u) ==
    /\ pc[p] = "idle"
    /\ \A q \in Procs : q < p => pc[q] # "idle"
    /\ joinsLeft > 0
    /\ pc' = [pc EXCEPT ![p] = "findOne"]
    /\ req' = [req EXCEPT ![p] = [doctorId |-> d, userId |-> u]]
    /\ sentBefore' = [sentBefore EXCEPT ![p] = Len(responses)]
    /\ joinsLeft' = joinsLeft - 1
    /\ queueResp' = NoQueue
    /\ UNCHANGED <<counters, appointments, found, counter, appt, responses,
                   now>>

\* A counter created at 1 instead of 0.
NewCounterAtOne(d) == [id |-> 0, doctorId |-> d, count |-> 1]

\* new TokenCounter({ doctorId, count: 0 }); id 0: not yet inserted.
NewCounter(d) == [id |-> 0, doctorId |-> d, count |-> 0]

\* counter.count += 1
Increment(n) == n + 1

\* findOne answers; a missing counter is built at count 0; the count is
\* incremented on the handler's own document and save is issued.
FindOne(p) ==
    /\ pc[p] = "findOne"
    /\ LET f == FindOneCounter(req[p].doctorId)
           doc == IF f = 0
                  THEN NewCounter(req[p].doctorId)
                  ELSE [id |-> f, doctorId |-> counters[f].doctorId,
                        count |-> counters[f].count]
       IN  /\ found' = [found EXCEPT ![p] = f]
           /\ counter' = [counter EXCEPT ![p] =
                            [doc EXCEPT !.count = Increment(doc.count)]]
    /\ pc' = [pc EXCEPT ![p] = "saveCounter"]
    /\ queueResp' = NoQueue
    /\ UNCHANGED <<counters, appointments, req, sentBefore, appt, responses,
                   joinsLeft, now>>

\* document.save() of a TokenCounter: a new document is inserted, a loaded
\* one has its modified path written ($set count) by _id.
SavedCounters(doc) ==
    IF doc.id = 0
    THEN Append(counters, [doctorId |-> doc.doctorId, count |-> doc.count])
    ELSE [counters EXCEPT ![doc.id].count = doc.count]

\* The response of a finished handler, as logged.
Response(p, status, token) ==
    [doctorId |-> req[p].doctorId, status |-> status, token |-> token]

\* The handler returns: its locals are gone.
Finish(p, status, token) ==
    /\ responses' = Append(responses, Response(p, status, token))
    /\ pc' = [pc EXCEPT ![p] = "idle"]
    /\ req' = [req EXCEPT ![p] = NoReq]
    /\ sentBefore' = [sentBefore EXCEPT ![p] = 0]
    /\ found' = [found EXCEPT ![p] = 0]
    /\ counter' = [counter EXCEPT ![p] = NoCounter]
    /\ appt' = [appt EXCEPT ![p] = NoAppt]

\* counter.save() succeeds; token = counter.count; the appointment is built
\* and its save issued.
SaveCounter(p) ==
    /\ pc[p] = "saveCounter"
    /\ counters' = SavedCounters(counter[p])
    /\ counter' = [counter EXCEPT ![p].id =
                     IF counter[p].id = 0 THEN Len(counters) + 1
                     ELSE counter[p].id]
    /\ appt' = [appt EXCEPT ![p] =
                  [id |-> 0, userId |-> req[p].userId,
                   doctorId |-> req[p].doctorId, status |-> "waiting",
                   token |-> counter[p].count, createdAt |-> now]]
    /\ pc' = [pc EXCEPT ![p] = "saveAppt"]
    /\ queueResp' = NoQueue
    /\ UNCHANGED <<appointments, req, sentBefore, found, responses, joinsLeft,
                   now>>

\* appt.save() succeeds; res.json({ token, appointment }).
SaveAppt(p) ==
    /\ pc[p] = "saveAppt"
    /\ appointments' = Append(appointments,
                              [appt[p] EXCEPT !.id = Len(appointments) + 1])
    /\ Finish(p, 200, appt[p].token)
    /\ queueResp' = NoQueue
    /\ UNCHANGED <<counters, joinsLeft, now>>

\* An await rejects; the catch block answers 500.
JoinFail(p) ==
    /\ pc[p] \in {"findOne", "saveCounter", "saveAppt"}
    /\ Finish(p, 500, 0)
    /\ queueResp' = NoQueue
    /\ UNCHANGED <<counters, appointments, joinsLeft, now>>

Join ==
    \E p \in Procs :
        \/ \E d \in Doctors, u \in Users : JoinStart(p, d, u)
        \/ FindOne(p)
        \/ SaveCounter(p)
        \/ SaveAppt(p)
        \/ JoinFail(p)

\* ------------------------------------------- the other routes, the clock

\* Time passes between two reads of new Date().
Tick ==
    /\ now < MaxClock
    /\ now' = now + 1
    /\ queueResp' = NoQueue
    /\ UNCHANGED <<counters, appointments, joinVars>>

\* findByIdAndUpdate(id, { status }): only the status path is written.
UpdateStatus(i, s) == [appointments EXCEPT ![i].status = s]

\* POST /api/appointments/:id/cancel
Cancel(i) ==
    /\ appointments' = UpdateStatus(i, "cancelled")
    /\ queueResp' = NoQueue
    /\ UNCHANGED <<counters, joinVars, now>>

\* PATCH /api/admin/appointments/:id/status
AdminStatus(i, s) ==
    /\ appointments' = UpdateStatus(i, s)
    /\ queueResp' = NoQueue
    /\ UNCHANGED <<counters, joinVars, now>>

\* The filter { doctorId, status: "waiting" } of GET /api/queue/:doctorId.
QueueFilter(a, d) == a.doctorId = d /\ a.status = "waiting"

\* A sort on the token alone.
QueueBeforeTokenOnly(a, b) == a.token < b.token

\* The order of sort({ token: 1, createdAt: 1 }): a strictly before b.
QueueBefore(a, b) ==
    \/ a.token < b.token
    \/ a.token = b.token /\ a.createdAt < b.createdAt

\* Documents the sort keys do not order keep their natural order.
InsertSorted(sorted, a) ==
    LET later == {k \in DOMAIN sorted : QueueBefore(a, sorted[k])}
        at == IF later = {} THEN Len(sorted) + 1 ELSE Min(later)
    IN  SubSeq(sorted, 1, at - 1) \o <<a>> \o SubSeq(sorted, at, Len(sorted))

RECURSIVE SortQueue(_)
SortQueue(docs) ==
    IF docs = <<>> THEN <<>>
    ELSE InsertSorted(SortQueue(SubSeq(docs, 1, Len(docs) - 1)),
                      docs[Len(docs)])

\* Appointment.find(filter) in natural order.
RECURSIVE FindQueue(_, _)
FindQueue(docs, d) ==
    IF docs = <<>> THEN <<>>
    ELSE LET rest == FindQueue(SubSeq(docs, 1, Len(docs) - 1), d)
             last == docs[Len(docs)]
         IN  IF QueueFilter(last, d) THEN Append(rest, last) ELSE rest

\* GET /api/queue/:doctorId
GetQueue(d) ==
    /\ queueResp' = [doctorId |-> d,
                     list |-> SortQueue(FindQueue(appointments, d))]
    /\ UNCHANGED <<counters, appointments, joinVars, now>>

\* --------------------------------------------------- specifications

\* Concurrent join-queue handlers.
Next == Join

Spec == Init /\ [][Next]_vars

\* The same handlers over longer runs.
SpecDeep == InitWith(MaxDeepJoins) /\ [][Next]_vars

\* Joins interleaved with cancellation, status updates and queue reads.
NextQueue ==
    \/ Join
    \/ Tick
    \/ \E i \in DOMAIN appointments : Cancel(i)
    \/ \E i \in DOMAIN appointments, s \in Statuses : AdminStatus(i, s)
    \/ \E d \in Doctors : GetQueue(d)

SpecQueue == InitWith(MaxQueueJoins) /\ [][NextQueue]_vars


\* ------------------------------------------------------------- claims

Successes(d) ==
    {i \in DOMAIN responses :
        responses[i].doctorId = d /\ responses[i].status = 200}

Failures(d) ==
    {i \in DOMAIN responses :
        responses[i].doctorId = d /\ responses[i].status = 500}

InFlight(d) == {p \in Procs : pc[p] # "idle" /\ req[p].doctorId = d}

\* C1: for a fixed doctor no two successful joins are issued the same token:
\* no two 200 responses and no two persisted queue entries of one doctor
\* carry the same token.
C1_UniqueTokens ==
    /\ \A d \in Doctors : \A i \in Successes(d), j \in Successes(d) :
           i # j => responses[i].token # responses[j].token
    /\ \A d \in Doctors : \A i \in EntriesOf(d), j \in EntriesOf(d) :
           i # j => appointments[i].token # appointments[j].token

\* C2: once N joins for a doctor have all returned and none failed, the
\* issued tokens are exactly 1..N and the doctor's counter is N.
C2_ContiguousTokens ==
    \A d \in Doctors :
        (InFlight(d) = {} /\ Failures(d) = {} /\ Successes(d) # {}) =>
            /\ {responses[i].token : i \in Successes(d)}
                   = 1..Cardinality(Successes(d))
            /\ DoctorCount(d) = Cardinality(Successes(d))

\* The response of GET /api/queue/:doctorId lists each waiting appointment
\* of the doctor once, as stored, and nothing else, by ascending token and,
\* among equal tokens, ascending createdAt.
QueueRespGood ==
    LET d == queueResp.doctorId
        list == queueResp.list
    IN  /\ \A k \in DOMAIN list :
               /\ list[k].id \in DOMAIN appointments
               /\ list[k] = appointments[list[k].id]
               /\ list[k].doctorId = d
               /\ list[k].status = "waiting"
        /\ \A i \in DOMAIN appointments :
               (appointments[i].doctorId = d
                   /\ appointments[i].status = "waiting")
               => Cardinality({k \in DOMAIN list : list[k].id = i}) = 1
        /\ \A k \in DOMAIN list, m \in DOMAIN list :
               k < m =>
                   \/ list[k].token < list[m].token
                   \/ /\ list[k].token = list[m].token
                      /\ list[k].createdAt <= list[m].createdAt

\* C3: after any sequence of joins, cancellations and status updates, a
\* queue read returns exactly the doctor's waiting appointments, ordered by
\* ascending token, ties by ascending createdAt.
C3_QueueContract == queueResp # NoQueue => QueueRespGood

\* A read that had to reorder two waiting entries of equal token by their
\* createdAt.
C3_Witness ==
    /\ queueResp.doctorId = "D1"
    /\ Len(queueResp.list) = 2
    /\ queueResp.list[1].token = queueResp.list[2].token
    /\ queueResp.list[1].createdAt < queueResp.list[2].createdAt
    /\ queueResp.list[1].id > queueResp.list[2].id
    /\ QueueRespGood

\* The step is one of handler p's join-queue steps.
JoinStepOf(p) == pc'[p] # pc[p]

\* The doctor handler p serves, before or after the step.
DoctorOf(p) == IF pc[p] = "idle" THEN req'[p].doctorId ELSE req[p].doctorId

\* C4: every step of a join for doctor A leaves every other doctor's
\* counter records and queue entries as they were.
C4_DoctorsIndependent ==
    [][\A p \in Procs : JoinStepOf(p) =>
          \A b \in Doctors \ {DoctorOf(p)} :
              /\ CounterDocs(b)' = CounterDocs(b)
              /\ \A i \in CounterDocs(b) : counters'[i] = counters[i]
              /\ EntriesOf(b)' = EntriesOf(b)
              /\ \A i \in EntriesOf(b) : appointments'[i] = appointments[i]
      ]_vars

\* D1's count has reached 2 and D2's first join still got token 1.
C4_Witness ==
    /\ DoctorCount("D1") = 2
    /\ DoctorCount("D2") = 1
    /\ \E i \in EntriesOf("D2") : appointments[i].token = 1
    /\ \E i \in EntriesOf("D1") : appointments[i].token = 2

\* No other join for p's doctor has been in flight since p's request began.
Isolated(p) ==
    /\ \A q \in Procs \ {p} :
           pc[q] = "idle" \/ req[q].doctorId # req[p].doctorId
    /\ \A i \in (sentBefore[p] + 1)..Len(responses) :
           responses[i].doctorId # req[p].doctorId

WaitingWithToken(d, t) ==
    {i \in EntriesOf(d) :
        appointments[i].status = "waiting" /\ appointments[i].token = t}

C6_CounterMonotone ==
    [][\A d \in Doctors :
          /\ DoctorCount(d)' >= DoctorCount(d)
          /\ (InFlight(d)' = {} /\ Failures(d)' = {}) =>
                 DoctorCount(d)' = Cardinality(Successes(d)')
      ]_vars

\* The first half of C6 alone: no step lowers a stored count.
C6_NeverDecreases ==
    [][\A i \in DOMAIN counters : counters'[i].count >= counters[i].count]_vars

\* C7: at most one TokenCounter record per doctor.
C7_OneCounterPerDoctor ==
    \A d \in Doctors : Cardinality(CounterDocs(d)) <= 1

\* C8: a join whose counter save succeeded and whose entry save failed
\* ends with the counter back at its pre-call value or with an entry
\* carrying the issued token.
C8_NoOrphanedToken ==
    [][\A p \in Procs, d \in Doctors :
          (JoinFail(p) /\ pc[p] = "saveAppt" /\ req[p].doctorId = d) =>
              \/ DoctorCount(d)' = counter[p].count - 1
              \/ \E i \in EntriesOf(d)' :
                     appointments'[i].token = appt[p].token
      ]_vars

\* C9: a join that began after another join for the doctor had returned
\* gets a larger token than that join.
C9_IncreasingInIssuanceOrder ==
    [][\A p \in Procs : SaveAppt(p) =>
          \A i \in 1..sentBefore[p] :
              (responses[i].doctorId = req[p].doctorId
                  /\ responses[i].status = 200)
              => appt[p].token > responses[i].token
      ]_vars

\* C10: every queue entry's token lies between 1 and the doctor's current
\* counter.
C10_TokenWithinCounter ==
    \A i \in DOMAIN appointments :
        /\ 1 <= appointments[i].token
        /\ appointments[i].token <= DoctorCount(appointments[i].doctorId)

=============================================================================
